---- MODULE Spec2Model ----
(***************************************************************************)
(* Token ledger (src/src/database.py), sliding-window rate limiter and     *)
(* admission guard (src/src/rate_limit.py) of the housing-price service.   *)
(*                                                                         *)
(* Time is a global clock counted in ticks, TicksPerSec ticks per second:  *)
(* time.time() reads it as it is, SQLite's datetime('now') reads it        *)
(* truncated to whole seconds.  Worker threads run check_rate_limit one    *)
(* shared-memory access at a time, because the limiter takes no lock.      *)
(***************************************************************************)
EXTENDS Integers, Sequences, FiniteSets, TLC

\* ---------------------------------------------------------------- bounds
TicksPerSec == 3
MaxTime == 4
MaxLimit == 2
MaxWindow == 1
MaxCalls == 3
MaxParallel == 2
MaxConns == 3
MaxCtors == 2
NumWorkers == 2

Tokens == {"t1", "t2"}
EmptyToken == ""
Workers == 1..NumWorkers
MainThread == 0
Threads == Workers \cup {MainThread}
Ticks == 0..MaxTime

VARIABLES
    now,                  \* the clock, in ticks
    requests_per_minute,  \* RateLimiter.requests_per_minute
    window_seconds,       \* RateLimiter.window_seconds
    db_manager,           \* whether RateLimiter._db_manager is set
    token_requests,       \* RateLimiter.token_requests: token -> list of timestamps
    pc,                   \* per worker: where it stands in its call
    op,                   \* per worker: "check" (check_rate_limit) or "admit" (the dependency)
    tok,                  \* per worker: the token argument
    filtered,             \* per worker: the list built by _cleanup_old_requests
    current_time,         \* per worker: current_time of _cleanup_old_requests
    current_count,        \* per worker: current_count of check_rate_limit
    stamp,                \* per worker: the timestamp its call appended (-1: none)
    result,               \* per worker: what its last call returned or raised
    history,              \* per token: the completed check_rate_limit calls since the last reset
    callLog,              \* per worker: what its current or last call did so far
    started,              \* how many calls the workers have started
    wasReset,             \* tokens reset_token_limit was called with
    resetExhausted,       \* tokens whose last reset found their window at the limit
    rows,                 \* the api_tokens table
    rowsBefore,           \* the table as the last call of the token endpoints found it
    dbResult,             \* what that DatabaseManager call was, returned or raised
    bornExpired,          \* tokens created with an expires_at earlier than the clock
    deactivateCalled,     \* tokens deactivate_api_token was called with
    revoked,              \* tokens for which deactivate_api_token matched a row
    connection,           \* per thread: _local.connection (NoConn: unset or None)
    connections,          \* the sqlite3 connections opened so far, in order
    lastGet,              \* the last get_connection call: its thread and what it returned
    phase,                \* "running" until the lifespan has shut the service down
    admin,                \* ADMIN_USERNAME and ADMIN_PASSWORD of the environment
    response,             \* the last request to a token endpoint and its response
    initialized,          \* RateLimiter._instance exists and has _initialized set
    lastCtor,             \* the last RateLimiter(...) call: its arguments, the state it found
    db_path,              \* db_path of the DatabaseManager made last
    db_instance,          \* DatabaseManager._instance is that manager (not None)
    schema                \* the database files in which _init_schema has made the table

limiterVars == <<requests_per_minute, window_seconds, db_manager, token_requests, pc, op, tok,
                 filtered, current_time, current_count, stamp, result, history,
                 callLog, started, wasReset, resetExhausted>>
ledgerVars == <<rows, rowsBefore, dbResult, bornExpired, deactivateCalled, revoked>>
connVars == <<connection, connections, lastGet, phase>>
apiVars == <<admin, response>>
ctorVars == <<initialized, lastCtor>>
managerVars == <<db_path, db_instance, schema>>
serviceVars == <<connVars, apiVars, ctorVars, managerVars>>
vars == <<now, limiterVars, ledgerVars, serviceVars>>

\* ------------------------------------------------------------ rate limiter
NoResult == [kind |-> "none", remaining |-> 0, retry |-> 0]

WindowTicks == window_seconds * TicksPerSec

\* token_requests is a defaultdict(list): a missing key reads as the empty list
Window(t) == IF t \in DOMAIN token_requests THEN token_requests[t] ELSE <<>>

one_list_for_all(t, list) ==
    [k \in DOMAIN token_requests \cup {t} |-> list]

\* self.token_requests[token] = list
SetWindow(t, list) ==
    [k \in DOMAIN token_requests \cup {t} |-> IF k = t THEN list ELSE token_requests[k]]

cleanup_keeps_cutoff(list, cur) ==
    SelectSeq(list, LAMBDA ts : ts >= cur - WindowTicks)

\* the list comprehension of _cleanup_old_requests
cleanup_old_requests(list, cur) ==
    SelectSeq(list, LAMBDA ts : ts > cur - WindowTicks)

limit_plus_one(count) == count > requests_per_minute

\* if current_count >= self.requests_per_minute
limit_reached(count) == count >= requests_per_minute

remaining_off_by_one(count) == requests_per_minute - count

\* remaining = self.requests_per_minute - current_count - 1
remaining_requests(count) == requests_per_minute - count - 1

not_appended(list, ts) == list

\* self.token_requests[token].append(time.time())
appended_list(list, ts) == Append(list, ts)

token_never_missing(t) == FALSE

\* if not token
token_missing(t) == t = EmptyToken

\* Python's int() of num/den: truncation towards zero
IntTrunc(num, den) == IF num >= 0 THEN num \div den ELSE -((-num) \div den)

Max(a, b) == IF a >= b THEN a ELSE b

remaining_time_rounded_up(oldest) ==
    Max(0, (WindowTicks - (now - oldest) + TicksPerSec - 1) \div TicksPerSec)

\* remaining_time = max(0, int(window_seconds - (time.time() - oldest_request)))
remaining_time(oldest) == Max(0, IntTrunc(WindowTicks - (now - oldest), TicksPerSec))

\* a call that has done nothing yet: validate_api_token not consulted, no entry
\* of token_requests accessed, no timestamp appended; revokedAt is the step of
\* the call that first found its token deactivated ("never": none did)
NoLog == [validated |-> "none", touched |-> FALSE, appends |-> 0, revokedAt |-> "never"]

\* the workers start at most MaxCalls calls
CallBudget == started < MaxCalls

AllIdle == \A w \in Workers : pc[w] = "idle"

\* what the caller of the dependency sees for a check_rate_limit outcome
Outcome(o, kind) ==
    IF o = "admit" /\ kind = "allowed" THEN "admitted"
    ELSE IF o = "admit" /\ kind = "denied" THEN "RateLimited"
    ELSE kind

\* what the caller receives of a value check_rate_limit returned: the
\* dependency puts it in the headers of its 429 and drops it on `return token`
\* (-1: not handed over)
passed_on(o, kind, value) ==
    IF o = "admit" /\ kind = "allowed" THEN -1 ELSE value

\* the call of worker w ends: its result is kept, its locals are dropped
Finish(w, kind, remaining, retry) ==
    /\ pc' = [pc EXCEPT ![w] = "idle"]
    /\ result' = [result EXCEPT ![w] =
                    [kind |-> Outcome(op[w], kind),
                     remaining |-> passed_on(op[w], kind, remaining),
                     retry |-> passed_on(op[w], kind, retry)]]
    /\ filtered' = [filtered EXCEPT ![w] = <<>>]
    /\ current_count' = [current_count EXCEPT ![w] = 0]
    /\ current_time' = [current_time EXCEPT ![w] = 0]
    /\ stamp' = [stamp EXCEPT ![w] = -1]
    /\ UNCHANGED <<op, tok, callLog>>

\* the call of worker w joins the history of its token: what it returned, the
\* clock its purge read (at), the count it took, the timestamp it appended
\* (ts; -1: none), the clock a denial read for its remaining_time (denied_at;
\* -1: not denied)
Record(w, kind, remaining, retry) ==
    history' = [history EXCEPT ![tok[w]] = Append(@,
                  [kind |-> kind, remaining |-> remaining, retry |-> retry,
                   at |-> current_time[w], count |-> current_count[w],
                   ts |-> stamp[w],
                   denied_at |-> IF kind = "denied" THEN now ELSE -1])]

\* a worker calls check_rate_limit(t)
StartCheck(w, t) ==
    /\ pc[w] = "idle"
    /\ CallBudget
    /\ started' = started + 1
    /\ pc' = [pc EXCEPT ![w] = "enter"]
    /\ op' = [op EXCEPT ![w] = "check"]
    /\ tok' = [tok EXCEPT ![w] = t]
    /\ result' = [result EXCEPT ![w] = NoResult]
    /\ callLog' = [callLog EXCEPT ![w] = NoLog]
    /\ UNCHANGED <<now, serviceVars, wasReset, resetExhausted, requests_per_minute, window_seconds, db_manager, token_requests, filtered,
                   current_time, current_count, stamp, history, ledgerVars>>

\* if not token: raise HTTPException(401, "Token is required")
RaiseTokenRequired(w) ==
    /\ pc[w] = "enter"
    /\ token_missing(tok[w])
    /\ Finish(w, "TokenRequired", 0, 0)
    /\ UNCHANGED <<now, serviceVars, requests_per_minute, window_seconds, db_manager, token_requests, history, started, wasReset, resetExhausted,
                   ledgerVars>>

\* _cleanup_old_requests: read the clock, build the filtered list
CleanupRead(w) ==
    /\ pc[w] = "enter"
    /\ ~token_missing(tok[w])
    /\ current_time' = [current_time EXCEPT ![w] = now]
    /\ filtered' = [filtered EXCEPT ![w] = cleanup_old_requests(Window(tok[w]), now)]
    /\ token_requests' = SetWindow(tok[w], Window(tok[w]))
    /\ pc' = [pc EXCEPT ![w] = "store"]
    /\ callLog' = [callLog EXCEPT ![w].touched = TRUE,
                                  ![w].revokedAt =
                                      IF op[w] = "admit" /\ @ = "never" /\ tok[w] \in revoked
                                      THEN "check" ELSE @]
    /\ UNCHANGED <<now, serviceVars, requests_per_minute, window_seconds, db_manager, op, tok, current_count,
                   stamp, result, history, started, wasReset, resetExhausted, ledgerVars>>

CleanupStore_drops_empty(w) ==
    /\ pc[w] = "store"
    /\ token_requests' = IF filtered[w] = <<>>
                         THEN [k \in DOMAIN token_requests \ {tok[w]} |-> token_requests[k]]
                         ELSE SetWindow(tok[w], filtered[w])
    /\ pc' = [pc EXCEPT ![w] = "count"]
    /\ UNCHANGED callLog
    /\ UNCHANGED <<now, serviceVars, requests_per_minute, window_seconds, db_manager, op, tok, filtered,
                   current_time, current_count, stamp, result, history, started, wasReset, resetExhausted, ledgerVars>>

\* _cleanup_old_requests: self.token_requests[token] = <the filtered list>
CleanupStore(w) ==
    /\ pc[w] = "store"
    /\ token_requests' = SetWindow(tok[w], filtered[w])
    /\ pc' = [pc EXCEPT ![w] = "count"]
    /\ UNCHANGED callLog
    /\ UNCHANGED <<now, serviceVars, requests_per_minute, window_seconds, db_manager, op, tok, filtered,
                   current_time, current_count, stamp, result, history, started, wasReset, resetExhausted, ledgerVars>>

\* current_count = len(self.token_requests[token])
Count(w) ==
    /\ pc[w] = "count"
    /\ current_count' = [current_count EXCEPT ![w] = Len(Window(tok[w]))]
    /\ token_requests' = SetWindow(tok[w], Window(tok[w]))
    /\ pc' = [pc EXCEPT ![w] = "compare"]
    /\ UNCHANGED callLog
    /\ UNCHANGED <<now, serviceVars, requests_per_minute, window_seconds, db_manager, op, tok, filtered,
                   current_time, stamp, result, history, started, wasReset, resetExhausted, ledgerVars>>

Deny_records(w) ==
    /\ pc[w] = "compare"
    /\ limit_reached(current_count[w])
    /\ IF Window(tok[w]) = <<>>
       THEN /\ Finish(w, "IndexError", 0, 0)
            /\ Record(w, "IndexError", 0, 0)
       ELSE /\ Finish(w, "denied", 0, remaining_time(Head(Window(tok[w]))))
            /\ Record(w, "denied", 0, remaining_time(Head(Window(tok[w]))))
    /\ token_requests' = SetWindow(tok[w], Append(Window(tok[w]), now))
    /\ UNCHANGED <<now, serviceVars, started, wasReset, resetExhausted, requests_per_minute, window_seconds, db_manager, ledgerVars>>

\* the branch current_count >= self.requests_per_minute
Deny(w) ==
    /\ pc[w] = "compare"
    /\ limit_reached(current_count[w])
    /\ IF Window(tok[w]) = <<>>
       THEN \* self.token_requests[token][0] on an empty list
            /\ Finish(w, "IndexError", 0, 0)
            /\ Record(w, "IndexError", 0, 0)
       ELSE /\ Finish(w, "denied", 0, remaining_time(Head(Window(tok[w]))))
            /\ Record(w, "denied", 0, remaining_time(Head(Window(tok[w]))))
    /\ token_requests' = SetWindow(tok[w], Window(tok[w]))
    /\ UNCHANGED <<now, serviceVars, started, wasReset, resetExhausted, requests_per_minute, window_seconds, db_manager, ledgerVars>>

\* self.token_requests[token].append(time.time())
AppendRequest(w) ==
    /\ pc[w] = "compare"
    /\ ~limit_reached(current_count[w])
    /\ token_requests' = SetWindow(tok[w], appended_list(Window(tok[w]), now))
    /\ stamp' = [stamp EXCEPT ![w] = now]
    /\ pc' = [pc EXCEPT ![w] = "appended"]
    /\ callLog' = [callLog EXCEPT ![w].appends = @ + 1]
    /\ UNCHANGED <<now, serviceVars, requests_per_minute, window_seconds, db_manager, op, tok, filtered,
                   current_time, current_count, result, history, started, wasReset, resetExhausted, ledgerVars>>

\* the rest of the allow branch: oldest_request, remaining_time, remaining
AllowReturn(w) ==
    /\ pc[w] = "appended"
    /\ LET oldest == IF Window(tok[w]) # <<>> THEN Head(Window(tok[w])) ELSE now
           remaining == remaining_requests(current_count[w])
       IN  /\ Finish(w, "allowed", remaining, remaining_time(oldest))
           /\ Record(w, "allowed", remaining, remaining_time(oldest))
    /\ token_requests' = SetWindow(tok[w], Window(tok[w]))
    /\ UNCHANGED <<now, serviceVars, started, wasReset, resetExhausted, requests_per_minute, window_seconds, db_manager, ledgerVars>>

reset_every_token(t) ==
    /\ token_requests' = [k \in DOMAIN token_requests \cup {t} |-> <<>>]
    /\ history' = [history EXCEPT ![t] = <<>>]
    /\ wasReset' = wasReset \cup {t}
    /\ resetExhausted' = IF Len(Window(t)) >= requests_per_minute
                         THEN resetExhausted \cup {t} ELSE resetExhausted \ {t}
    /\ UNCHANGED <<now, serviceVars, started, requests_per_minute, window_seconds, db_manager, pc, op, tok, filtered,
                   current_time, current_count, stamp, result, callLog, ledgerVars>>

\* reset_token_limit(t): self.token_requests[token] = []
reset_token_limit(t) ==
    /\ token_requests' = SetWindow(t, <<>>)
    /\ history' = [history EXCEPT ![t] = <<>>]
    /\ wasReset' = wasReset \cup {t}
    /\ resetExhausted' = IF Len(Window(t)) >= requests_per_minute
                         THEN resetExhausted \cup {t} ELSE resetExhausted \ {t}
    /\ UNCHANGED <<now, serviceVars, started, requests_per_minute, window_seconds, db_manager, pc, op, tok, filtered,
                   current_time, current_count, stamp, result, callLog, ledgerVars>>

\* time passes
Tick ==
    /\ now < MaxTime
    /\ now' = now + 1
    /\ UNCHANGED <<limiterVars, ledgerVars, serviceVars>>

CheckStep(w) ==
    \/ RaiseTokenRequired(w)
    \/ CleanupRead(w)
    \/ CleanupStore(w)
    \/ Count(w)
    \/ Deny(w)
    \/ AppendRequest(w)
    \/ AllowReturn(w)

\* ------------------------------------------------------------ token ledger
\* Python's None for the expires_at argument; a datetime is its instant in ticks
None == -1
ExpiryArgs == {None} \cup Ticks

\* SQL NULL in a TIMESTAMP column; a stored datetime is a text
NULL == <<>>

\* sqlite3's default adapter, datetime.isoformat(" "): "YYYY-MM-DD HH:MM:SS", and
\* ".ffffff" after it only when the microseconds are not zero.  The text is the
\* sequence <<seconds>> or <<seconds, fraction>>.
adapt_datetime(d) ==
    IF d = None THEN NULL
    ELSE IF d % TicksPerSec = 0 THEN <<d \div TicksPerSec>>
    ELSE <<d \div TicksPerSec, d % TicksPerSec>>

\* SQLite's datetime('now') and CURRENT_TIMESTAMP: "YYYY-MM-DD HH:MM:SS", whole seconds
datetime_now(clock) == <<clock \div TicksPerSec>>

\* the instant a stored text denotes
text_instant(x) == x[1] * TicksPerSec + (IF Len(x) > 1 THEN x[2] ELSE 0)

\* a > b for two texts under SQLite's BINARY collation: the first differing
\* position decides, and a text is greater than each of its proper prefixes
TextGreater(a, b) ==
    \E i \in 1..Len(a) :
        /\ \A j \in 1..(i - 1) : j <= Len(b) /\ a[j] = b[j]
        /\ IF i > Len(b) THEN TRUE ELSE a[i] > b[i]

TokenRows(table, token) == {i \in 1..Len(table) : table[i].token = token}

only_active_unique(table, token) ==
    \E i \in 1..Len(table) : table[i].token = token /\ table[i].is_active

\* token TEXT UNIQUE NOT NULL
unique_violation(table, token) == TokenRows(table, token) # {}

inserted_inactive(table, token, expires_at, clock) ==
    [id |-> Len(table) + 1, token |-> token, created_at |-> datetime_now(clock),
     expires_at |-> adapt_datetime(expires_at), is_active |-> FALSE]

\* INSERT INTO api_tokens (token, expires_at) VALUES (?, ?): id from AUTOINCREMENT,
\* created_at DEFAULT CURRENT_TIMESTAMP, is_active DEFAULT 1
inserted_row(table, token, expires_at, clock) ==
    [id |-> Len(table) + 1, token |-> token, created_at |-> datetime_now(clock),
     expires_at |-> adapt_datetime(expires_at), is_active |-> TRUE]

rowcount_changed_only(table, token) ==
    Cardinality({i \in 1..Len(table) : table[i].token = token /\ table[i].is_active})

\* cursor.rowcount: the rows UPDATE ... WHERE token = ? matches
rowcount(table, token) == Cardinality({i \in 1..Len(table) : table[i].token = token})

update_toggles(table, token) ==
    [i \in 1..Len(table) |->
        IF table[i].token = token THEN [table[i] EXCEPT !.is_active = ~@] ELSE table[i]]

\* UPDATE api_tokens SET is_active = 0 WHERE token = ?
update_inactive(table, token) ==
    [i \in 1..Len(table) |->
        IF table[i].token = token THEN [table[i] EXCEPT !.is_active = FALSE] ELSE table[i]]

\* SELECT id FROM api_tokens WHERE token = ? AND is_active = 1
\*   AND (expires_at IS NULL OR expires_at > datetime('now'))   -- is a row fetched?
validate_query(table, clock, token) ==
    \E i \in TokenRows(table, token) :
        /\ table[i].is_active
        /\ \/ table[i].expires_at = NULL
           \/ TextGreater(table[i].expires_at, datetime_now(clock))

all_rows(table) == table

\* SELECT * FROM api_tokens WHERE is_active = 1
active_rows(table) == SelectSeq(table, LAMBDA r : r.is_active)

NoDbResult ==
    [op |-> "none", token |-> EmptyToken, expires_at |-> None, raised |-> "",
     ret |-> FALSE, lastrowid |-> 0, listing |-> <<>>]

DbCall(name, token) == [NoDbResult EXCEPT !.op = name, !.token = token]

create_api_token(token, expires_at) ==
    /\ rowsBefore' = rows
    /\ IF unique_violation(rows, token)
       THEN \* sqlite3.IntegrityError; self._connection.rollback(); raise
            /\ rows' = rows
            /\ dbResult' = [DbCall("create", token) EXCEPT
                               !.expires_at = expires_at, !.raised = "IntegrityError"]
            /\ UNCHANGED bornExpired
       ELSE /\ rows' = Append(rows, inserted_row(rows, token, expires_at, now))
            /\ dbResult' = [DbCall("create", token) EXCEPT
                               !.expires_at = expires_at, !.lastrowid = Len(rows) + 1]
            /\ bornExpired' = IF expires_at # None /\ expires_at < now
                              THEN bornExpired \cup {token} ELSE bornExpired
    /\ UNCHANGED <<now, serviceVars, limiterVars, deactivateCalled, revoked>>

get_api_tokens ==
    /\ rowsBefore' = rows
    /\ dbResult' = [DbCall("list", EmptyToken) EXCEPT !.listing = active_rows(rows)]
    /\ UNCHANGED <<now, serviceVars, limiterVars, rows, bornExpired, deactivateCalled, revoked>>

deactivate_api_token(token) ==
    /\ rowsBefore' = rows
    /\ rows' = update_inactive(rows, token)
    \* success = cursor.rowcount > 0
    /\ dbResult' = [DbCall("deactivate", token) EXCEPT
                       !.ret = rowcount(rows, token) > 0]
    /\ deactivateCalled' = deactivateCalled \cup {token}
    /\ revoked' = IF TokenRows(rows, token) # {} THEN revoked \cup {token} ELSE revoked
    /\ UNCHANGED <<now, serviceVars, limiterVars, bornExpired>>

validate_api_token(token) ==
    /\ rowsBefore' = rows
    /\ dbResult' = [DbCall("validate", token) EXCEPT !.ret = validate_query(rows, now, token)]
    /\ UNCHANGED <<now, serviceVars, limiterVars, rows, bornExpired, deactivateCalled, revoked>>

\* self._connection.rollback(): the statements the connection ran since its
\* last commit are undone
rollback_keeps_statement(committed, pending) == pending

rollback(committed, pending) == committed

\* create_api_token when the INSERT has run and the store then fails (commit
\* raises sqlite3.OperationalError): except Exception -> rollback(); raise
create_api_token_fails(token, expires_at) ==
    /\ ~unique_violation(rows, token)
    /\ rowsBefore' = rows
    /\ rows' = rollback(rows, Append(rows, inserted_row(rows, token, expires_at, now)))
    /\ dbResult' = [DbCall("create", token) EXCEPT
                       !.expires_at = expires_at, !.raised = "OperationalError"]
    /\ UNCHANGED <<now, serviceVars, limiterVars, bornExpired, deactivateCalled, revoked>>

\* deactivate_api_token when the UPDATE has run and the store then fails
deactivate_api_token_fails(token) ==
    /\ rowsBefore' = rows
    /\ rows' = rollback(rows, update_inactive(rows, token))
    /\ dbResult' = [DbCall("deactivate", token) EXCEPT !.raised = "OperationalError"]
    /\ deactivateCalled' = deactivateCalled \cup {token}
    /\ UNCHANGED <<now, serviceVars, limiterVars, bornExpired, revoked>>

\* ---------------------------------------------------------- token endpoints
\* os.getenv("ADMIN_USERNAME"), os.getenv("ADMIN_PASSWORD"); "" stands for unset
Configured == [username |-> "admin", password |-> "secret"]
AdminConfigs ==
    {[username |-> "", password |-> ""], [username |-> "admin", password |-> ""], Configured}

\* the username and password fields of a request
Usernames == {"admin", "guest"}
Passwords == {"secret", "wrong"}

\* request.expires_at: absent, an ISO instant, or a text fromisoformat rejects
BadFormat == -2
ExpiryFields == {None, BadFormat}

OK == 200

NoResponse ==
    [handler |-> "none", status |-> 0, username |-> "", password |-> "",
     ledger |-> FALSE, store_ok |-> TRUE]

Respond(handler, code, username, password, ledger, store_ok) ==
    [handler |-> handler, status |-> code, username |-> username,
     password |-> password, ledger |-> ledger, store_ok |-> store_ok]

\* verify_admin_credentials: the status of the HTTPException it raises, OK when
\* it returns
verify_admin_credentials(username, password) ==
    IF admin.username = "" \/ admin.password = "" THEN 500
    ELSE IF username # admin.username \/ password # admin.password THEN 401
    ELSE OK

\* db_manager.create_api_token(token, expires_at) as a handler calls it, on a
\* store that is reachable or not
create_call(token, expires_at, store_ok) ==
    IF ~store_ok
    THEN [table |-> rollback(rows, rows),
          res |-> [DbCall("create", token) EXCEPT
                      !.expires_at = expires_at, !.raised = "OperationalError"]]
    ELSE IF unique_violation(rows, token)
    THEN [table |-> rows,
          res |-> [DbCall("create", token) EXCEPT
                      !.expires_at = expires_at, !.raised = "IntegrityError"]]
    ELSE [table |-> Append(rows, inserted_row(rows, token, expires_at, now)),
          res |-> [DbCall("create", token) EXCEPT
                      !.expires_at = expires_at, !.lastrowid = Len(rows) + 1]]

deactivate_call(token, store_ok) ==
    IF ~store_ok
    THEN [table |-> rollback(rows, rows),
          res |-> [DbCall("deactivate", token) EXCEPT !.raised = "OperationalError"]]
    ELSE [table |-> update_inactive(rows, token),
          res |-> [DbCall("deactivate", token) EXCEPT !.ret = rowcount(rows, token) > 0]]

list_call(store_ok) ==
    IF ~store_ok
    THEN [table |-> rows,
          res |-> [DbCall("list", EmptyToken) EXCEPT !.raised = "OperationalError"]]
    ELSE [table |-> rows,
          res |-> [DbCall("list", EmptyToken) EXCEPT !.listing = active_rows(rows)]]

\* a handler that made the ledger call c
LedgerCalled(c) ==
    /\ rowsBefore' = rows
    /\ rows' = c.table
    /\ dbResult' = c.res
    /\ bornExpired' =
          IF c.res.op = "create" /\ c.res.raised = ""
             /\ c.res.expires_at # None /\ c.res.expires_at < now
          THEN bornExpired \cup {c.res.token} ELSE bornExpired
    /\ deactivateCalled' =
          IF c.res.op = "deactivate"
          THEN deactivateCalled \cup {c.res.token} ELSE deactivateCalled
    /\ revoked' =
          IF c.res.op = "deactivate" /\ c.res.raised = ""
             /\ TokenRows(rows, c.res.token) # {}
          THEN revoked \cup {c.res.token} ELSE revoked

\* POST /create-token of the router
create_token(username, password, expires_at, token, store_ok) ==
    LET auth == verify_admin_credentials(username, password)
        c == create_call(token, expires_at, store_ok)
        R(code, ledger) ==
            Respond("create_token", code, username, password, ledger, store_ok)
    IN  /\ IF auth # OK
           THEN response' = R(auth, FALSE) /\ UNCHANGED ledgerVars
           ELSE IF expires_at = BadFormat
           THEN response' = R(400, FALSE) /\ UNCHANGED ledgerVars
           ELSE IF ~db_manager
           THEN response' = R(503, FALSE) /\ UNCHANGED ledgerVars
           ELSE /\ LedgerCalled(c)
                /\ response' = R(IF c.res.raised = "" THEN OK ELSE 500, TRUE)
        /\ UNCHANGED <<now, limiterVars, connVars, ctorVars, managerVars, admin>>

\* POST /revoke-token of the router; an exception of the ledger call is not
\* caught and reaches general_exception_handler
revoke_token(username, password, token, store_ok) ==
    LET auth == verify_admin_credentials(username, password)
        c == deactivate_call(token, store_ok)
        R(code, ledger) ==
            Respond("revoke_token", code, username, password, ledger, store_ok)
    IN  /\ IF auth # OK
           THEN response' = R(auth, FALSE) /\ UNCHANGED ledgerVars
           ELSE IF ~db_manager
           THEN response' = R(503, FALSE) /\ UNCHANGED ledgerVars
           ELSE /\ LedgerCalled(c)
                /\ response' = R(IF c.res.raised # "" THEN 500
                                 ELSE IF c.res.ret THEN OK ELSE 400, TRUE)
        /\ UNCHANGED <<now, limiterVars, connVars, ctorVars, managerVars, admin>>

\* POST /get-tokens of the router
get_tokens(username, password, store_ok) ==
    LET auth == verify_admin_credentials(username, password)
        c == list_call(store_ok)
        R(code, ledger) ==
            Respond("get_tokens", code, username, password, ledger, store_ok)
    IN  /\ IF auth # OK
           THEN response' = R(auth, FALSE) /\ UNCHANGED ledgerVars
           ELSE IF ~db_manager
           THEN response' = R(503, FALSE) /\ UNCHANGED ledgerVars
           ELSE /\ LedgerCalled(c)
                /\ response' = R(IF c.res.raised = "" THEN OK ELSE 500, TRUE)
        /\ UNCHANGED <<now, limiterVars, connVars, ctorVars, managerVars, admin>>

\* POST /create-token of main.py: the credentials of the request are not read;
\* with db_manager unset the call raises inside the try
main_create_token(username, password, expires_at, token, store_ok) ==
    LET c == create_call(token, expires_at, store_ok)
        R(code, ledger) ==
            Respond("main.create_token", code, username, password, ledger, store_ok)
    IN  /\ IF expires_at = BadFormat
           THEN response' = R(400, FALSE) /\ UNCHANGED ledgerVars
           ELSE IF ~db_manager
           THEN response' = R(500, FALSE) /\ UNCHANGED ledgerVars
           ELSE /\ LedgerCalled(c)
                /\ response' = R(IF c.res.raised = "" THEN OK ELSE 500, TRUE)
        /\ UNCHANGED <<now, limiterVars, connVars, ctorVars, managerVars, admin>>

\* POST /revoke-token of main.py
main_revoke_token(username, password, token, store_ok) ==
    LET c == deactivate_call(token, store_ok)
        R(code, ledger) ==
            Respond("main.revoke_token", code, username, password, ledger, store_ok)
    IN  /\ IF ~db_manager
           THEN response' = R(500, FALSE) /\ UNCHANGED ledgerVars
           ELSE /\ LedgerCalled(c)
                /\ response' = R(IF c.res.raised # "" THEN 500
                                 ELSE IF c.res.ret THEN OK ELSE 400, TRUE)
        /\ UNCHANGED <<now, limiterVars, connVars, ctorVars, managerVars, admin>>

\* POST /get-tokens of main.py: the request has no body
main_get_tokens(store_ok) ==
    LET c == list_call(store_ok)
        R(code, ledger) == Respond("main.get_tokens", code, "", "", ledger, store_ok)
    IN  /\ IF ~db_manager
           THEN response' = R(500, FALSE) /\ UNCHANGED ledgerVars
           ELSE /\ LedgerCalled(c)
                /\ response' = R(IF c.res.raised = "" THEN OK ELSE 500, TRUE)
        /\ UNCHANGED <<now, limiterVars, connVars, ctorVars, managerVars, admin>>

\* ------------------------------------------------------------ connections
\* _local.connection is missing or None
NoConn == 0

\* DB_PATH = os.path.join(..., "data", "housing.db")
DB_PATH == "data/housing.db"

\* the paths a DatabaseManager is made with: temp_db uses test_housing.db in a
\* fresh directory
DbPaths == {DB_PATH, "test_housing.db"}

\* db_path=None, and the empty string, for which db_path or DB_PATH is DB_PATH too
NoPath == ""

NoGet == [thread |-> MainThread, conn |-> NoConn, db_path |-> DB_PATH]

\* self._local.connection as the calling thread sees it: _local is a
\* threading.local()
any_threads_connection(th) ==
    IF \E v \in Threads : connection[v] # NoConn
    THEN connection[CHOOSE v \in Threads : connection[v] # NoConn]
    ELSE NoConn

local_connection(th) == connection[th]

\* CREATE TABLE IF NOT EXISTS / CREATE INDEX IF NOT EXISTS; commit
init_schema(table) == table

\* get_connection on thread th: sqlite3.connect and _init_schema when the
\* thread has no connection, then return self._local.connection
get_connection(th) ==
    /\ phase = "running"
    /\ IF local_connection(th) = NoConn
       THEN /\ Len(connections) < MaxConns
            /\ connections' = Append(connections,
                                  [thread |-> th, closed |-> FALSE, schema_runs |-> 1,
                                   path |-> db_path])
            /\ connection' = [connection EXCEPT ![th] = Len(connections) + 1]
            /\ lastGet' = [thread |-> th, conn |-> Len(connections) + 1,
                           db_path |-> db_path]
            /\ rows' = init_schema(rows)
            /\ schema' = schema \cup {db_path}
       ELSE /\ lastGet' = [thread |-> th, conn |-> local_connection(th),
                           db_path |-> db_path]
            /\ UNCHANGED <<connection, connections, rows, schema>>
    /\ UNCHANGED <<now, limiterVars, rowsBefore, dbResult, bornExpired, deactivateCalled,
                   revoked, phase, apiVars, ctorVars, db_path, db_instance>>

\* what close_connection on thread th leaves of the open connections
closed_own(th) ==
    IF connection[th] # NoConn
    THEN [local |-> [connection EXCEPT ![th] = NoConn],
          conns |-> [connections EXCEPT ![connection[th]].closed = TRUE]]
    ELSE [local |-> connection, conns |-> connections]

close_connection(th) ==
    /\ connection' = closed_own(th).local
    /\ connections' = closed_own(th).conns
    /\ UNCHANGED <<now, limiterVars, ledgerVars, lastGet, phase, apiVars, ctorVars, managerVars>>

\* the end of lifespan: housing_model = None; del db_manager.  The
\* DatabaseManager stays referenced by DatabaseManager._instance and by the
\* RateLimiter, so __del__ may or may not run; when it runs it calls
\* close_connection on the thread of the lifespan
shutdown ==
    /\ phase = "running"
    /\ phase' = "stopped"
    /\ \E del_runs \in BOOLEAN :
          IF del_runs
          THEN /\ connection' = closed_own(MainThread).local
               /\ connections' = closed_own(MainThread).conns
          ELSE UNCHANGED <<connection, connections>>
    /\ UNCHANGED <<now, limiterVars, ledgerVars, lastGet, apiVars, ctorVars, managerVars>>

\* --------------------------------------------- DatabaseManager construction
\* DatabaseManager._instance = None, as temp_db does before and after a test;
\* the manager made before stays referenced where it was handed to
reset_db_instance ==
    /\ db_instance
    /\ db_instance' = FALSE
    /\ UNCHANGED <<now, limiterVars, ledgerVars, connVars, apiVars, ctorVars, db_path, schema>>

\* DatabaseManager(path): __new__ returns the one instance or makes it,
\* __init__ sets db_path = path or DB_PATH the first time only.  _local is an
\* attribute of the class: every instance sees the same connection per thread
DatabaseManager_init(path) ==
    /\ IF ~db_instance
       THEN /\ db_path' = IF path = NoPath THEN DB_PATH ELSE path
            /\ db_instance' = TRUE
            /\ UNCHANGED connection
       ELSE UNCHANGED <<db_path, db_instance, connection>>
    /\ UNCHANGED <<now, limiterVars, ledgerVars, connections, lastGet, phase, apiVars,
                   ctorVars, schema>>

\* ------------------------------------------------- RateLimiter construction
DEFAULT_REQUESTS_PER_MINUTE == 100

DEFAULT_WINDOW_SECONDS == 60

\* the arguments RateLimiter(...) is called with
LimitArgs == 0..MaxLimit \cup {DEFAULT_REQUESTS_PER_MINUTE}

WindowArgs == 1..MaxWindow \cup {DEFAULT_WINDOW_SECONDS}

NoWindows == [t \in {} |-> <<>>]

NoCtor == [n |-> 0, first |-> FALSE, requests_per_minute |-> DEFAULT_REQUESTS_PER_MINUTE,
           window_seconds |-> DEFAULT_WINDOW_SECONDS, db_manager |-> FALSE,
           limit_before |-> 0, keys_before |-> {}]

\* RateLimiter._instance = None: the next construction makes a new object
reset_instance ==
    /\ initialized
    /\ initialized' = FALSE
    /\ UNCHANGED <<now, limiterVars, ledgerVars, connVars, apiVars, managerVars, lastCtor>>

RateLimiter_init_clears_on_change(rpm, ws, dbm) ==
    /\ lastCtor.n < MaxCtors
    /\ lastCtor' = [n |-> lastCtor.n + 1, first |-> ~initialized,
                    requests_per_minute |-> rpm, window_seconds |-> ws, db_manager |-> dbm,
                    limit_before |-> requests_per_minute,
                    keys_before |-> DOMAIN token_requests]
    /\ IF ~initialized
       THEN /\ requests_per_minute' = rpm
            /\ window_seconds' = ws
            /\ db_manager' = dbm
            /\ token_requests' = NoWindows
            /\ initialized' = TRUE
       ELSE /\ db_manager' = IF dbm THEN TRUE ELSE db_manager
            /\ IF rpm # DEFAULT_REQUESTS_PER_MINUTE
               THEN /\ requests_per_minute' = rpm
                    /\ token_requests' = IF rpm # requests_per_minute
                                         THEN NoWindows ELSE token_requests
               ELSE UNCHANGED <<requests_per_minute, token_requests>>
            /\ window_seconds' = IF ws # DEFAULT_WINDOW_SECONDS THEN ws ELSE window_seconds
            /\ UNCHANGED initialized
    /\ UNCHANGED <<now, ledgerVars, connVars, apiVars, managerVars, pc, op, tok, filtered, current_time,
                   current_count, stamp, result, history, callLog, started, wasReset,
                   resetExhausted>>

\* RateLimiter(requests_per_minute=rpm, window_seconds=ws, db_manager=dbm):
\* __new__ returns the one instance, __init__ sets it up the first time and
\* reconfigures it afterwards
RateLimiter_init(rpm, ws, dbm) ==
    /\ lastCtor.n < MaxCtors
    /\ lastCtor' = [n |-> lastCtor.n + 1, first |-> ~initialized,
                    requests_per_minute |-> rpm, window_seconds |-> ws, db_manager |-> dbm,
                    limit_before |-> requests_per_minute,
                    keys_before |-> DOMAIN token_requests]
    /\ IF ~initialized
       THEN /\ requests_per_minute' = rpm
            /\ window_seconds' = ws
            /\ db_manager' = dbm
            /\ token_requests' = NoWindows
            /\ initialized' = TRUE
       ELSE /\ db_manager' = IF dbm THEN TRUE ELSE db_manager
            /\ IF rpm # DEFAULT_REQUESTS_PER_MINUTE
               THEN /\ requests_per_minute' = rpm
                    /\ token_requests' = NoWindows
               ELSE UNCHANGED <<requests_per_minute, token_requests>>
            /\ window_seconds' = IF ws # DEFAULT_WINDOW_SECONDS THEN ws ELSE window_seconds
            /\ UNCHANGED initialized
    /\ UNCHANGED <<now, ledgerVars, connVars, apiVars, managerVars, pc, op, tok, filtered, current_time,
                   current_count, stamp, result, history, callLog, started, wasReset,
                   resetExhausted>>

\* ------------------------------------------------------------------ gateway
never_rejected(token) == FALSE

\* instance._db_manager and not instance._db_manager.validate_api_token(token)
token_rejected(token) == db_manager /\ ~validate_query(rows, now, token)

\* a worker of the thread pool runs check_rate_limit_dependency(credentials)
StartAdmit(w, t) ==
    /\ pc[w] = "idle"
    /\ CallBudget
    /\ started' = started + 1
    /\ pc' = [pc EXCEPT ![w] = "validate"]
    /\ op' = [op EXCEPT ![w] = "admit"]
    /\ tok' = [tok EXCEPT ![w] = t]
    /\ result' = [result EXCEPT ![w] = NoResult]
    /\ callLog' = [callLog EXCEPT ![w] = NoLog]
    /\ UNCHANGED <<now, serviceVars, wasReset, resetExhausted, requests_per_minute, window_seconds, db_manager, token_requests,
                   filtered, current_time, current_count, stamp, history, ledgerVars>>

\* credentials = Security(HTTPBearer()): a request without bearer credentials is
\* refused by HTTPBearer, and the body of the dependency does not run
NoCredentials(w) ==
    /\ pc[w] = "idle"
    /\ CallBudget
    /\ started' = started + 1
    /\ op' = [op EXCEPT ![w] = "admit"]
    /\ tok' = [tok EXCEPT ![w] = EmptyToken]
    /\ result' = [result EXCEPT ![w] =
                    [kind |-> "NotAuthenticated", remaining |-> 0, retry |-> 0]]
    /\ callLog' = [callLog EXCEPT ![w] = NoLog]
    /\ UNCHANGED <<now, serviceVars, wasReset, resetExhausted, requests_per_minute, window_seconds, db_manager, token_requests,
                   pc, filtered, current_time, current_count, stamp, history, ledgerVars>>

\* if instance._db_manager and not instance._db_manager.validate_api_token(token):
\*     raise HTTPException(401, "Invalid or expired token")
AdmitValidate(w) ==
    /\ pc[w] = "validate"
    /\ IF token_rejected(tok[w])
       THEN /\ pc' = [pc EXCEPT ![w] = "idle"]
            /\ result' = [result EXCEPT ![w] =
                            [kind |-> "InvalidToken", remaining |-> 0, retry |-> 0]]
       ELSE /\ pc' = [pc EXCEPT ![w] = "enter"]
            /\ UNCHANGED result
    \* validate_api_token is called only when _db_manager is set
    /\ callLog' = [callLog EXCEPT ![w].validated =
                      IF ~db_manager THEN "none"
                      ELSE IF validate_query(rows, now, tok[w]) THEN "true" ELSE "false",
                                  ![w].revokedAt =
                                      IF tok[w] \in revoked THEN "validate" ELSE @]
    /\ UNCHANGED <<op, tok, filtered, current_time, current_count, stamp>>
    /\ UNCHANGED <<now, serviceVars, requests_per_minute, window_seconds, db_manager, token_requests,
                   history, started, wasReset, resetExhausted, ledgerVars>>

\* validate_api_token raises (the store cannot be reached): the exception
\* leaves check_rate_limit_dependency uncaught and the request ends with
\* status 500
AdmitValidateFails(w) ==
    /\ pc[w] = "validate"
    /\ db_manager
    /\ pc' = [pc EXCEPT ![w] = "idle"]
    /\ result' = [result EXCEPT ![w] =
                    [kind |-> "OperationalError", remaining |-> 0, retry |-> 0]]
    /\ callLog' = [callLog EXCEPT ![w].validated = "raised"]
    /\ rowsBefore' = rows
    /\ dbResult' = [DbCall("validate", tok[w]) EXCEPT !.raised = "OperationalError"]
    /\ UNCHANGED <<op, tok, filtered, current_time, current_count, stamp>>
    /\ UNCHANGED <<now, serviceVars, requests_per_minute, window_seconds, db_manager,
                   token_requests, history, started, wasReset, resetExhausted,
                   rows, bornExpired, deactivateCalled, revoked>>

Init ==
    /\ now = 0
    /\ requests_per_minute \in 0..MaxLimit
    /\ window_seconds \in 1..MaxWindow
    /\ db_manager \in BOOLEAN
    /\ token_requests = [t \in {} |-> <<>>]
    /\ pc = [w \in Workers |-> "idle"]
    /\ op = [w \in Workers |-> "check"]
    /\ tok = [w \in Workers |-> EmptyToken]
    /\ filtered = [w \in Workers |-> <<>>]
    /\ current_time = [w \in Workers |-> 0]
    /\ current_count = [w \in Workers |-> 0]
    /\ stamp = [w \in Workers |-> -1]
    /\ result = [w \in Workers |-> NoResult]
    /\ history = [t \in Tokens |-> <<>>]
    /\ callLog = [w \in Workers |-> NoLog]
    /\ started = 0
    /\ wasReset = {}
    /\ resetExhausted = {}
    /\ rows = <<>>
    /\ rowsBefore = <<>>
    /\ dbResult = NoDbResult
    /\ bornExpired = {}
    /\ deactivateCalled = {}
    /\ revoked = {}
    /\ connection = [th \in Threads |-> NoConn]
    /\ connections = <<>>
    /\ lastGet = NoGet
    /\ phase = "running"
    /\ admin \in AdminConfigs
    /\ response = NoResponse
    /\ initialized = TRUE
    /\ lastCtor = NoCtor
    /\ db_path = DB_PATH
    /\ db_instance = TRUE
    /\ schema = {}

\* the service: the workers of the thread pool run admissions and checks step
\* by step, interleaved with ledger transactions and the clock.  They start
\* MaxParallel calls in all, and contend for one token.  No request handler
\* calls reset_token_limit.
SpecTokens == {"t1"}

Next ==
    \/ \E w \in Workers, t \in SpecTokens \cup {EmptyToken} :
          started < MaxParallel /\ StartCheck(w, t)
    \/ \E w \in Workers, t \in SpecTokens \cup {EmptyToken} :
          started < MaxParallel /\ StartAdmit(w, t)
    \/ \E w \in Workers : AdmitValidate(w)
    \/ \E w \in Workers : CheckStep(w)
    \/ \E t \in SpecTokens : create_api_token(t, None)
    \/ \E t \in SpecTokens : deactivate_api_token(t)
    \/ Tick

\* main.py wires the ledger into the limiter: RateLimiter(db_manager=db_manager)
SpecInit == Init /\ db_manager /\ admin = Configured

Spec == SpecInit /\ [][Next]_vars

\* the admissions of the service beside resets and ledger transactions, with
\* threads that keep running: a worker that is inside a call takes its next
\* step
FairNext ==
    \/ \E w \in Workers, t \in SpecTokens \cup {EmptyToken} :
          started < MaxParallel /\ StartCheck(w, t)
    \/ \E w \in Workers, t \in SpecTokens \cup {EmptyToken} :
          started < MaxParallel /\ StartAdmit(w, t)
    \/ \E w \in Workers : AdmitValidate(w)
    \/ \E w \in Workers : CheckStep(w)
    \/ \E t \in SpecTokens : create_api_token(t, None)
    \/ \E t \in SpecTokens : deactivate_api_token(t)
    \/ \E t \in SpecTokens : reset_token_limit(t)

FairInit == SpecInit /\ requests_per_minute <= 1

Fairness == \A w \in Workers : WF_vars(AdmitValidate(w) \/ CheckStep(w))

FairSpec == FairInit /\ [][FairNext]_vars /\ Fairness

\* the limiter alone, its calls executed one after another by one thread
SeqWorker == CHOOSE w \in Workers : TRUE

SeqNext ==
    \/ \E t \in Tokens \cup {EmptyToken} : AllIdle /\ StartCheck(SeqWorker, t)
    \/ \E w \in Workers : CheckStep(w)
    \/ \E t \in Tokens : AllIdle /\ reset_token_limit(t)
    \/ Tick

SeqInit == Init /\ ~db_manager /\ admin = Configured

SeqSpec == SeqInit /\ [][SeqNext]_vars

\* the gateway: one thread runs admissions and checks one after another, while
\* the token endpoints change the ledger at any point of a call
GateExpiry == {None, TicksPerSec}

GateNext ==
    \/ \E t \in SpecTokens \cup {EmptyToken} : AllIdle /\ StartAdmit(SeqWorker, t)
    \/ \E t \in SpecTokens \cup {EmptyToken} : AllIdle /\ StartCheck(SeqWorker, t)
    \/ AllIdle /\ NoCredentials(SeqWorker)
    \/ AdmitValidate(SeqWorker)
    \/ CheckStep(SeqWorker)
    \/ \E t \in SpecTokens, e \in GateExpiry : create_api_token(t, e)
    \/ \E t \in SpecTokens : deactivate_api_token(t)
    \/ Tick

GateInit == Init /\ db_manager /\ admin = Configured

GateSpec == GateInit /\ [][GateNext]_vars

\* the ledger alone: DatabaseManager's calls, each one transaction
LedgerNext ==
    \/ \E t \in Tokens, e \in ExpiryArgs : create_api_token(t, e)
    \/ \E t \in Tokens : deactivate_api_token(t)
    \/ \E t \in Tokens : validate_api_token(t)
    \/ get_api_tokens
    \/ Tick

LedgerInit ==
    /\ Init /\ requests_per_minute = MaxLimit /\ window_seconds = MaxWindow /\ db_manager
    /\ admin = Configured

LedgerSpec == LedgerInit /\ [][LedgerNext]_vars

\* the ledger on a store that can fail in the middle of a transaction
FaultNext ==
    \/ \E t \in Tokens, e \in ExpiryArgs : create_api_token(t, e)
    \/ \E t \in Tokens, e \in ExpiryArgs : create_api_token_fails(t, e)
    \/ \E t \in Tokens : deactivate_api_token(t)
    \/ \E t \in Tokens : deactivate_api_token_fails(t)
    \/ \E t \in Tokens : validate_api_token(t)
    \/ get_api_tokens
    \/ Tick

FaultSpec == LedgerInit /\ [][FaultNext]_vars

\* the HTTP surface: the token endpoints of the router and of main.py and the
\* gateway of the prediction endpoints, one request at a time, on a store
\* that may be unreachable during a call
ApiNext ==
    \/ \E u \in Usernames, p \in Passwords, e \in ExpiryFields, t \in SpecTokens,
          ok \in BOOLEAN : AllIdle /\ create_token(u, p, e, t, ok)
    \/ \E u \in Usernames, p \in Passwords, t \in SpecTokens, ok \in BOOLEAN :
          AllIdle /\ revoke_token(u, p, t, ok)
    \/ \E u \in Usernames, p \in Passwords, ok \in BOOLEAN :
          AllIdle /\ get_tokens(u, p, ok)
    \/ \E u \in Usernames, p \in Passwords, e \in ExpiryFields, t \in SpecTokens,
          ok \in BOOLEAN : AllIdle /\ main_create_token(u, p, e, t, ok)
    \/ \E u \in Usernames, p \in Passwords, t \in SpecTokens, ok \in BOOLEAN :
          AllIdle /\ main_revoke_token(u, p, t, ok)
    \/ \E ok \in BOOLEAN : AllIdle /\ main_get_tokens(ok)
    \/ \E t \in SpecTokens \cup {EmptyToken} :
          AllIdle /\ started < MaxParallel /\ StartAdmit(SeqWorker, t)
    \/ AdmitValidate(SeqWorker)
    \/ AdmitValidateFails(SeqWorker)
    \/ CheckStep(SeqWorker)

ApiInit ==
    Init /\ requests_per_minute = 1 /\ window_seconds = MaxWindow

ApiSpec == ApiInit /\ [][ApiNext]_vars

\* the threads of the service and their connections: a thread runs its
\* statements on the connection get_connection gave it
ConnNext ==
    \/ \E th \in Threads : get_connection(th)
    \/ \E th \in Threads : close_connection(th)
    \/ shutdown
    \/ \E t \in SpecTokens :
          /\ lastGet.conn # NoConn /\ ~connections[lastGet.conn].closed
          /\ phase = "running"
          /\ create_api_token(t, None)
    \/ \E t \in SpecTokens :
          /\ lastGet.conn # NoConn /\ ~connections[lastGet.conn].closed
          /\ phase = "running"
          /\ deactivate_api_token(t)

ConnSpec == LedgerInit /\ [][ConnNext]_vars

\* ------------------------------------------------------------------ C1 (Spec)
Allowed(h) == {i \in 1..Len(h) : h[i].kind = "allowed"}

Denied(h) == {i \in 1..Len(h) : h[i].kind = "denied"}

\* C1: no overshoot, no undershoot.  When N calls of check_rate_limit for one
\* token, with limit L and N > L >= 1, have run from an empty window inside one
\* window, with no reset, exactly L of them returned allowed and N - L denied.
C1_ExactlyLimitAdmitted ==
    \A t \in Tokens :
        (/\ AllIdle
         /\ t \notin wasReset
         /\ now < WindowTicks
         /\ requests_per_minute >= 1
         /\ Len(history[t]) > requests_per_minute)
        => /\ Cardinality(Allowed(history[t])) = requests_per_minute
           /\ Cardinality(Denied(history[t])) = Len(history[t]) - requests_per_minute

\* ------------------------------------------------------- C2, C3, C4 (SeqSpec)

\* calls i..j of h lie in one window: the purge of call j still keeps the
\* timestamp call i appended
OneWindow(h, i, j) == h[i].ts = -1 \/ h[j].at - WindowTicks < h[i].ts

\* C2: sequential countdown.  With limit L >= 1, the calls that follow a call
\* which found the window empty, inside one window and with no reset between,
\* return allowed with remaining L-1, L-2, ..., 0, and the (L+1)-th returns
\* denied with remaining 0.
C2_SequentialCountdown ==
    \A t \in Tokens : \A i, j \in 1..Len(history[t]) :
        LET h == history[t]
            k == j - i
        IN  (/\ requests_per_minute >= 1
             /\ h[i].count = 0
             /\ 0 <= k /\ k <= requests_per_minute
             /\ OneWindow(h, i, j))
            => IF k < requests_per_minute
               THEN h[j].kind = "allowed" /\ h[j].remaining = requests_per_minute - 1 - k
               ELSE h[j].kind = "denied" /\ h[j].remaining = 0

\* a full countdown 1, 0, denied with limit 2 has been observed
C2_Witness ==
    \E t \in Tokens :
        /\ requests_per_minute = 2
        /\ Len(history[t]) = 3
        /\ history[t][1].count = 0
        /\ OneWindow(history[t], 1, 3)
        /\ history[t][1].remaining = 1
        /\ history[t][2].remaining = 0
        /\ history[t][3].kind = "denied"

AdmittedIn(t, n) ==
    {i \in Allowed(history[t]) : n - WindowTicks < history[t][i].ts /\ history[t][i].ts <= n}

\* C3: sliding-window safety.  For every token and every instant n, the calls
\* that returned allowed with a timestamp in (n - window, n] number at most limit.
C3_WindowQuota ==
    \A t \in Tokens : \A n \in Ticks : Cardinality(AdmittedIn(t, n)) <= requests_per_minute

\* a token was admitted more often than limit in all, the window having slid,
\* while some window holds exactly limit admissions
C3_Witness ==
    \E t \in Tokens :
        /\ requests_per_minute >= 1
        /\ Cardinality(Allowed(history[t])) > requests_per_minute
        /\ \E n \in Ticks : Cardinality(AdmittedIn(t, n)) = requests_per_minute

\* C4: the window slides.  A call that follows a denied call of the same token
\* by at least window_seconds (measured from the clock the denied call read)
\* returns allowed.
C4_WindowSlides ==
    \A t \in Tokens : \A i \in 1..Len(history[t]) :
        (/\ i > 1
         /\ history[t][i - 1].kind = "denied"
         /\ history[t][i].at >= history[t][i - 1].at + WindowTicks)
        => history[t][i].kind = "allowed"

\* a denied call was followed, a window later, by an allowed one
C4_Witness ==
    \E t \in Tokens : \E i \in 2..Len(history[t]) :
        /\ history[t][i - 1].kind = "denied"
        /\ history[t][i].at >= history[t][i - 1].at + WindowTicks
        /\ history[t][i].kind = "allowed"

\* ------------------------------------------------------ C5..C10 (LedgerSpec)
\* the record of a token, where there is one
RowOf(table, token) == table[CHOOSE i \in TokenRows(table, token) : TRUE]

\* a record that is active and whose expires_at is unset or later than the clock
Live(table, clock, token) ==
    /\ TokenRows(table, token) # {}
    /\ RowOf(table, token).is_active
    /\ \/ RowOf(table, token).expires_at = NULL
       \/ text_instant(RowOf(table, token).expires_at) > clock

\* C5: validate_api_token returns true if and only if a record with the token
\* exists, is active, and its expires_at is unset or strictly later than the
\* current time.
C5_ValidateIffLive ==
    dbResult.op = "validate" => (dbResult.ret <=> Live(rows, now, dbResult.token))

\* C6: right after create_api_token(t, None) succeeds, validating t gives true
\* and the new record is active.
C6_CreatedTokenValidates ==
    (dbResult.op = "create" /\ dbResult.raised = "" /\ dbResult.expires_at = None)
    => /\ validate_query(rows, now, dbResult.token)
       /\ TokenRows(rows, dbResult.token) # {}
       /\ RowOf(rows, dbResult.token).is_active

\* a token without expiry was created beside another record
C6_Witness ==
    /\ dbResult.op = "create" /\ dbResult.raised = "" /\ dbResult.expires_at = None
    /\ Len(rows) = 2
    /\ rows[2].token = dbResult.token

\* C7 as stated: once deactivate_api_token(t) was called, for any t, validating
\* t never gives true again.
C7_DeactivateCalledTerminal ==
    \A t \in deactivateCalled : ~validate_query(rows, now, t)

\* C7, amended: validating t gives false right after deactivate_api_token(t),
\* for any t; and once deactivate_api_token(t) matched a record, validating t
\* never gives true again.
C7_RevocationTerminal ==
    /\ dbResult.op = "deactivate" => ~validate_query(rows, now, dbResult.token)
    /\ \A t \in revoked : ~validate_query(rows, now, t)

\* a revoked token was created again, which failed as a duplicate
C7_Witness ==
    /\ dbResult.op = "create" /\ dbResult.raised = "IntegrityError"
    /\ dbResult.token \in revoked
    /\ dbResult.expires_at = None

\* C8: a token created with expires_at in the past fails validation although
\* its is_active flag is true.
C8_BornExpiredFails ==
    (/\ dbResult.op = "validate"
     /\ dbResult.token \in bornExpired
     /\ RowOf(rows, dbResult.token).is_active)
    => ~dbResult.ret

\* C9: create_api_token with a token that is already in the ledger, active or
\* revoked, fails with the duplicate error and leaves the table as it was.
C9_DuplicateCreateFails ==
    (dbResult.op = "create" /\ TokenRows(rowsBefore, dbResult.token) # {})
    => dbResult.raised = "IntegrityError" /\ rows = rowsBefore

\* the duplicate of a revoked token was refused in a ledger of two records
C9_Witness ==
    /\ dbResult.op = "create" /\ dbResult.raised = "IntegrityError"
    /\ Len(rowsBefore) = 2
    /\ ~RowOf(rowsBefore, dbResult.token).is_active

\* C10: deactivate_api_token returns true if and only if a record with the
\* token exists, active or not; validating the token afterwards gives false;
\* and for a token without a record the table is left as it was.
C10_DeactivateReportsExistence ==
    dbResult.op = "deactivate"
    => /\ dbResult.ret <=> TokenRows(rowsBefore, dbResult.token) # {}
       /\ ~validate_query(rows, now, dbResult.token)
       /\ TokenRows(rowsBefore, dbResult.token) = {} => rows = rowsBefore

\* a second deactivate of an already inactive token returned true
C10_Witness ==
    /\ dbResult.op = "deactivate" /\ dbResult.ret
    /\ TokenRows(rowsBefore, dbResult.token) # {}
    /\ ~RowOf(rowsBefore, dbResult.token).is_active
    /\ rows = rowsBefore

\* ------------------------------------------------------------ C11 (LedgerSpec)
\* C11: get_api_tokens returns exactly the records whose is_active flag is
\* true: each active record once, expired or not, and no record of a token
\* that was deactivated.
C11_ListExactlyActive ==
    dbResult.op = "list"
    => LET l == dbResult.listing
       IN  /\ \A i \in 1..Len(rows) :
                 rows[i].is_active <=> (\E j \in 1..Len(l) : l[j] = rows[i])
           /\ Len(l) = Cardinality({i \in 1..Len(rows) : rows[i].is_active})
           /\ \A j \in 1..Len(l) : l[j].token \notin revoked

\* the listing holds an active record whose expires_at has passed, and leaves
\* out the record of a revoked token
C11_Witness ==
    /\ dbResult.op = "list"
    /\ \E j \in 1..Len(dbResult.listing) :
          /\ dbResult.listing[j].expires_at # NULL
          /\ text_instant(dbResult.listing[j].expires_at) < now
    /\ \E i \in 1..Len(rows) : rows[i].token \in revoked

\* ------------------------------------------------------------------ C12 (Spec)
\* the call of the dependency by worker w has passed its validation step
PastValidation(w) == op[w] = "admit" /\ (pc[w] \notin {"idle", "validate"} \/ result[w].kind # "none")

C13_InvalidConsumesNothing ==
    \A w \in Workers :
        (op[w] = "admit" /\ (callLog[w].validated = "false" \/ result[w].kind = "InvalidToken"))
        => /\ ~callLog[w].touched
           /\ callLog[w].appends = 0
           /\ pc[w] = "idle"

\* a token was admitted, then expired, and its next admission failed as
\* invalid while its window still holds the earlier timestamp
C13_Witness ==
    \E w \in Workers :
        /\ op[w] = "admit" /\ result[w].kind = "InvalidToken"
        /\ TokenRows(rows, tok[w]) # {}
        /\ RowOf(rows, tok[w]).is_active
        /\ RowOf(rows, tok[w]).expires_at # NULL
        /\ Window(tok[w]) # <<>>

\* ------------------------------------------------------------- C14 (GateSpec)
\* the last completed check_rate_limit call of token t
LastCall(t) == history[t][Len(history[t])]

\* C14: a successful admission consumes exactly one unit of quota.  When a call
\* of the dependency has returned the token, it appended one timestamp: the
\* window holds the timestamps that survived the purge and, last, the one of
\* this call.  No step of a call writes to the ledger.
C14_AdmissionConsumesOne ==
    /\ [](\A w \in Workers :
            (op[w] = "admit" /\ result[w].kind = "admitted")
            => /\ callLog[w].appends = 1
               /\ Len(Window(tok[w])) = LastCall(tok[w]).count + 1
               /\ Window(tok[w])[Len(Window(tok[w]))] = LastCall(tok[w]).ts)
    /\ [][(\E w \in Workers : pc'[w] # pc[w] \/ result'[w] # result[w])
            => UNCHANGED ledgerVars]_vars

\* the second admission of a token returned the token: the window holds two
\* timestamps
C14_Witness ==
    \E w \in Workers :
        /\ op[w] = "admit" /\ result[w].kind = "admitted"
        /\ Len(Window(tok[w])) = 2
        /\ LastCall(tok[w]).count = 1

\* ------------------------------------------------------------- C15 (GateSpec)
\* C15: when the quota of a valid token is exhausted the dependency fails as
\* rate-limited, with remaining 0, and appends nothing; with limit L a call
\* that finds fewer than L timestamps in the window is admitted, and one that
\* finds L or more is rate-limited.
C15_ExhaustedIsRateLimited ==
    \A w \in Workers :
        (op[w] = "admit" /\ pc[w] = "idle" /\ callLog[w].validated = "true")
        => IF LastCall(tok[w]).count >= requests_per_minute
           THEN /\ result[w].kind = "RateLimited"
                /\ result[w].remaining = 0
                /\ callLog[w].appends = 0
           ELSE result[w].kind = "admitted"

\* ------------------------------------------------------------- C16 (GateSpec)
\* C16: a request without a token is refused as unauthenticated before any
\* ledger or limiter call; and check_rate_limit of the empty string raises the
\* token-required error without accessing any window entry, so no entry is
\* ever created for the empty string.
C16_NoTokenTouchesNothing ==
    /\ \A w \in Workers : result[w].kind = "NotAuthenticated" => callLog[w] = NoLog
    /\ \A w \in Workers :
          (op[w] = "check" /\ tok[w] = EmptyToken /\ (pc[w] # "idle" \/ result[w].kind # "none"))
          => /\ pc[w] \in {"enter", "idle"}
             /\ pc[w] = "idle" => result[w].kind = "TokenRequired"
             /\ callLog[w] = NoLog
    /\ EmptyToken \notin DOMAIN token_requests

\* check_rate_limit("") raised the token-required error while a token holds a
\* record and a timestamp
C16_Witness ==
    \E w \in Workers :
        /\ op[w] = "check" /\ tok[w] = EmptyToken /\ result[w].kind = "TokenRequired"
        /\ rows # <<>>
        /\ \E t \in DOMAIN token_requests : token_requests[t] # <<>>

\* -------------------------------------------------------------- C17 (SeqSpec)
\* C17: with limit 0, check_rate_limit denies unconditionally: every call with
\* a non-empty token, whatever the window, returns denied with remaining 0 and
\* records no timestamp.
C17_ZeroLimitDenies ==
    requests_per_minute = 0
    => \A t \in Tokens :
          /\ Window(t) = <<>>
          /\ \A i \in 1..Len(history[t]) :
                /\ history[t][i].kind = "denied"
                /\ history[t][i].remaining = 0
                /\ history[t][i].ts = -1

\* -------------------------------------------------------------- C18 (SeqSpec)
\* no call of check_rate_limit for token t is in progress
NoCallFor(t) == \A w \in Workers : pc[w] = "idle" \/ tok[w] # t

\* after reset_token_limit(t) the window of t is empty until the next call
\* for t, and the step of a reset changes the window of no other token
ResetClearsOneWindow ==
    /\ [](\A t \in wasReset :
            (history[t] = <<>> /\ NoCallFor(t))
            => t \in DOMAIN token_requests /\ token_requests[t] = <<>>)
    /\ [][(pc' = pc /\ now' = now)
            => \E t \in Tokens :
                  /\ t \in DOMAIN token_requests' /\ token_requests'[t] = <<>>
                  /\ \A u \in Tokens \ {t} :
                        /\ u \in DOMAIN token_requests' <=> u \in DOMAIN token_requests
                        /\ u \in DOMAIN token_requests => token_requests'[u] = token_requests[u]]_vars

\* C18 as stated: reset_token_limit(t) clears the window of t and of no other
\* token, and the next check_rate_limit(t) returns allowed with remaining =
\* limit - 1, whatever the limit.
C18_ResetRestoresQuota ==
    /\ ResetClearsOneWindow
    /\ [](\A t \in wasReset :
            history[t] # <<>>
            => /\ history[t][1].kind = "allowed"
               /\ history[t][1].remaining = requests_per_minute - 1)

\* C18, amended: the same with a limit of at least 1.
C18_ResetRestoresPositiveQuota ==
    /\ ResetClearsOneWindow
    /\ [](\A t \in wasReset :
            (requests_per_minute >= 1 /\ history[t] # <<>>)
            => /\ history[t][1].kind = "allowed"
               /\ history[t][1].remaining = requests_per_minute - 1)

\* a token exhausted its quota, was reset, and its next check, in the same
\* window, returned allowed with remaining = limit - 1, while the other token
\* kept its timestamp
C18_Witness ==
    \E t \in resetExhausted :
        /\ requests_per_minute >= 1
        /\ now < WindowTicks
        /\ history[t] # <<>>
        /\ history[t][1].kind = "allowed"
        /\ history[t][1].remaining = requests_per_minute - 1
        /\ \E u \in Tokens \ {t} : Window(u) # <<>>

\* -------------------------------------------------------------- C19 (SeqSpec)
\* a step of a call of check_rate_limit changes the window and the history of
\* no token but the one it was called with
CheckChangesOwnWindowOnly ==
    [][\A w \in Workers :
          pc'[w] # pc[w]
          => \A u \in Tokens \ {tok'[w]} :
                /\ u \in DOMAIN token_requests' <=> u \in DOMAIN token_requests
                /\ u \in DOMAIN token_requests => token_requests'[u] = token_requests[u]
                /\ history'[u] = history[u]]_vars

\* C19 as stated: rate limits are per token, and the first check of a token
\* returns allowed with remaining = limit - 1 whatever the other tokens have
\* consumed, for any limit.
C19_PerTokenQuota ==
    /\ CheckChangesOwnWindowOnly
    /\ [](\A t \in Tokens \ wasReset :
            history[t] # <<>>
            => /\ history[t][1].kind = "allowed"
               /\ history[t][1].remaining = requests_per_minute - 1)

\* C19, amended: the same with a limit of at least 1.
C19_PerTokenPositiveQuota ==
    /\ CheckChangesOwnWindowOnly
    /\ [](\A t \in Tokens \ wasReset :
            (requests_per_minute >= 1 /\ history[t] # <<>>)
            => /\ history[t][1].kind = "allowed"
               /\ history[t][1].remaining = requests_per_minute - 1)

\* one token is exhausted (its last check was denied) and, in the same window,
\* the first check of the other token returned allowed with remaining = limit - 1
C19_Witness ==
    \E t, u \in Tokens :
        /\ t # u
        /\ wasReset = {}
        /\ now < WindowTicks
        /\ history[t] # <<>> /\ LastCall(t).kind = "denied"
        /\ Len(history[u]) = 1
        /\ history[u][1].kind = "allowed"
        /\ history[u][1].remaining = requests_per_minute - 1
        /\ history[u][1].at >= LastCall(t).at

\* ----------------------------------------------------------- C20 (LedgerSpec)
TokenStrings(table) == {table[i].token : i \in 1..Len(table)}

\* C20: no two records share a token string, and no operation removes a
\* record: the token strings in the ledger never lose an element.
C20_UniqueAndNeverDeleted ==
    /\ [](\A i, j \in 1..Len(rows) : rows[i].token = rows[j].token => i = j)
    /\ [][/\ TokenStrings(rows) \subseteq TokenStrings(rows')
          /\ Len(rows') >= Len(rows)]_vars

\* every token was created and revoked, a re-creation was refused, and both
\* records are still there
C20_Witness ==
    /\ Len(rows) = Cardinality(Tokens)
    /\ \A i \in 1..Len(rows) : ~rows[i].is_active
    /\ dbResult.op = "create" /\ dbResult.raised = "IntegrityError"
    /\ TokenStrings(rows) = Tokens

\* ----------------------------------------------------------- C21 (LedgerSpec)
\* C21: a record is immutable except for its active flag.  No step changes
\* the id, token, created_at or expires_at of a record or its place in the
\* table; is_active changes only from true to false, only in a step of
\* deactivate_api_token and only for the token it was called with; and
\* validate_api_token and get_api_tokens leave the table as it was.
C21_OnlyFlagChanges ==
    [][/\ \A i \in 1..Len(rows) :
             /\ i <= Len(rows')
             /\ rows'[i].id = rows[i].id
             /\ rows'[i].token = rows[i].token
             /\ rows'[i].created_at = rows[i].created_at
             /\ rows'[i].expires_at = rows[i].expires_at
             /\ rows'[i].is_active => rows[i].is_active
             /\ rows'[i].is_active # rows[i].is_active
                  => dbResult'.op = "deactivate" /\ dbResult'.token = rows[i].token
       /\ dbResult'.op \in {"validate", "list"} => rows' = rows]_vars

\* the active record of a token with an expiry was deactivated beside
\* another record, which stayed active
C21_Witness ==
    /\ dbResult.op = "deactivate" /\ dbResult.ret
    /\ Len(rows) = 2
    /\ RowOf(rowsBefore, dbResult.token).is_active
    /\ ~RowOf(rows, dbResult.token).is_active
    /\ RowOf(rows, dbResult.token).expires_at # NULL
    /\ \E i \in 1..Len(rows) : rows[i].is_active

\* ------------------------------------------------------------ C22 (FaultSpec)
\* C22: every mutation of the ledger is atomic.  A call that raises leaves
\* the table exactly as it was before the call; a call that changes the table
\* changes it by its whole effect: create_api_token appends one complete
\* active record of its token, deactivate_api_token clears the flag of every
\* record of its token.  No other table is ever seen.
C22_AllOrNothing ==
    [][/\ dbResult'.raised # "" => rows' = rows
       /\ rows' # rows =>
             /\ dbResult'.raised = ""
             /\ \/ /\ dbResult'.op = "create"
                   /\ Len(rows') = Len(rows) + 1
                   /\ SubSeq(rows', 1, Len(rows)) = rows
                   /\ rows'[Len(rows')].token = dbResult'.token
                   /\ rows'[Len(rows')].id = dbResult'.lastrowid
                   /\ rows'[Len(rows')].is_active
                \/ /\ dbResult'.op = "deactivate"
                   /\ Len(rows') = Len(rows)
                   /\ \A i \in 1..Len(rows) :
                         rows'[i] = IF rows[i].token = dbResult'.token
                                    THEN [rows[i] EXCEPT !.is_active = FALSE]
                                    ELSE rows[i]]_vars

\* a create and a deactivate failed after their statement had run, on a ledger
\* that holds a record which the failed deactivate would have changed
C22_Witness ==
    /\ dbResult.raised = "OperationalError"
    /\ dbResult.op = "deactivate"
    /\ rows = rowsBefore
    /\ \E i \in 1..Len(rows) : rows[i].token = dbResult.token /\ rows[i].is_active

\* ------------------------------------------------------------- C23 (ConnSpec)
\* C23: each thread owns its own connection.  The connection a thread holds
\* was opened by that thread, is open, and is held by no other thread; what
\* get_connection returns is the connection of the calling thread.  A
\* connection is opened only by a get_connection call of a thread that held
\* none, its schema creation has run exactly once and left the table as it
\* was; a get_connection call of a thread that holds a connection opens
\* nothing and returns that same connection.
C23_OwnConnection ==
    /\ [](\A th \in Threads :
             /\ connection[th] # NoConn =>
                   /\ connections[connection[th]].thread = th
                   /\ ~connections[connection[th]].closed
                   /\ \A v \in Threads \ {th} : connection[v] # connection[th]
             /\ lastGet.conn # NoConn /\ lastGet.thread = th =>
                   connections[lastGet.conn].thread = th
             /\ \A i \in 1..Len(connections) : connections[i].schema_runs = 1)
    /\ [][/\ Len(connections') > Len(connections) =>
               /\ connection[lastGet'.thread] = NoConn
               /\ lastGet'.conn = Len(connections')
               /\ connections'[Len(connections')].thread = lastGet'.thread
               /\ rows' = rows
         /\ \A th \in Threads :
               connection[th] # NoConn /\ lastGet' # lastGet /\ lastGet'.thread = th =>
                   /\ lastGet'.conn = connection[th]
                   /\ connections' = connections]_vars

\* two threads hold a connection each, and the thread that called
\* get_connection last received the one it already held
C23_Witness ==
    /\ \E th, v \in Threads :
          th # v /\ connection[th] # NoConn /\ connection[v] # NoConn
    /\ lastGet.conn # NoConn
    /\ lastGet.conn < Len(connections)
    /\ connection[lastGet.thread] = lastGet.conn

\* ------------------------------------------------------------- C24 (ConnSpec)
\* C24: once the service has shut down, every connection a thread opened is
\* closed: the close at shutdown releases the connection of each thread that
\* opened one, not only that of the thread it runs on.
C24_AllReleasedAtShutdown ==
    phase = "stopped" => \A i \in 1..Len(connections) : connections[i].closed

\* -------------------------------------------------------------- C25 (ApiSpec)
\* C25: a token endpoint reaches the ledger only after the administrator's
\* identity is confirmed.  With the administrator's credentials not
\* configured the request ends with status 500, with a username or password
\* that differs from the configured one it ends with status 401, and in both
\* cases the handler has made no ledger call.
C25_LedgerOnlyAfterAdmin ==
    response.handler # "none" =>
        /\ admin.username = "" \/ admin.password = "" =>
              response.status = 500 /\ ~response.ledger
        /\ /\ admin.username # "" /\ admin.password # ""
           /\ response.username # admin.username \/ response.password # admin.password
           => response.status = 401 /\ ~response.ledger

\* a ledger call that found the store unreachable changed neither the table
\* nor a window
StoreFailureChangesNothing ==
    /\ response.ledger /\ ~response.store_ok => rows = rowsBefore
    /\ \A w \in Workers :
          callLog[w].validated = "raised" => ~callLog[w].touched /\ callLog[w].appends = 0

\* -------------------------------------------------------------- C26 (ApiSpec)
\* C26: when the store cannot be reached during a ledger call, a token
\* endpoint answers with status 503 and the gateway ends the admission as
\* service unavailable, and neither the table nor the token's window has
\* changed.
C26_StoreFailureIsUnavailable ==
    /\ response.ledger /\ ~response.store_ok => response.status = 503
    /\ \A w \in Workers :
          callLog[w].validated = "raised" => result[w].kind = "ServiceUnavailable"
    /\ StoreFailureChangesNothing

\* ------------------------------------------------------------- C27 (GateSpec)
\* C27: a successful admission hands its caller the quota metadata: the
\* remaining quota, a number in 0..limit-1, and the seconds to the reset, a
\* number in 0..window_seconds, as a rate-limited denial does.
C27_AdmittedCarriesQuota ==
    \A w \in Workers :
        op[w] = "admit" /\ result[w].kind \in {"admitted", "RateLimited"} =>
            /\ result[w].remaining \in 0..requests_per_minute
            /\ result[w].retry \in 0..window_seconds

\* ------------------------------------------------------------- C28 (FairSpec)
\* C28: every call of check_rate_limit_dependency completes, whatever other
\* admissions, resets and ledger operations run beside it: a worker inside an
\* admission always has a step it can take, it reaches the end of the call,
\* and the call ends admitted or with one of the failure outcomes (no token,
\* invalid token, rate limited).
AdmitOutcomes == {"admitted", "TokenRequired", "InvalidToken", "RateLimited"}

AlwaysCompletes ==
    /\ [](\A w \in Workers :
             pc[w] # "idle" => ENABLED (AdmitValidate(w) \/ CheckStep(w)))
    /\ \A w \in Workers : pc[w] # "idle" ~> pc[w] = "idle"

C28_AdmitAlwaysCompletes ==
    /\ AlwaysCompletes
    /\ [](\A w \in Workers :
             op[w] = "admit" /\ pc[w] = "idle" /\ result[w].kind # "none" =>
                 result[w].kind \in AdmitOutcomes)

\* ----------------------------------------------------------------- C29 (Spec)
\* C29: validation and quota consumption are two steps.  An admission whose
\* validate step runs after deactivate_api_token has deactivated its token
\* never succeeds: it ends as an invalid token and appends nothing.  (The
\* witness is the race the two steps leave open: the token is deactivated
\* after the validate step of an admission and before its quota step, and the
\* admission still succeeds and appends one timestamp.)
C29_RevokedBeforeValidateFails ==
    \A w \in Workers :
        op[w] = "admit" /\ callLog[w].revokedAt = "validate" =>
            /\ pc[w] = "idle"
            /\ result[w].kind = "InvalidToken"
            /\ callLog[w].appends = 0

C29_Witness ==
    \E w \in Workers :
        /\ op[w] = "admit" /\ pc[w] = "idle"
        /\ callLog[w].validated = "true"
        /\ callLog[w].revokedAt = "check"
        /\ result[w].kind = "admitted"
        /\ callLog[w].appends = 1
        /\ tok[w] \in revoked
        /\ \E v \in Workers :
              /\ v # w /\ op[v] = "admit" /\ tok[v] = tok[w]
              /\ callLog[v].revokedAt = "validate"
              /\ result[v].kind = "InvalidToken"

\* -------------------------------------------------------------- C30 (SeqSpec)
\* the step in which the call of worker w is denied
DenyStep(w) ==
    /\ pc[w] = "compare" /\ pc'[w] = "idle"
    /\ result'[w].kind \in {"denied", "RateLimited"}

\* max(0, window_seconds - (now - oldest surviving timestamp)), in ticks
TimeToExpiry(w) == Max(0, WindowTicks - (now - Head(Window(tok[w]))))

\* C30 as stated: a denial returns remaining = 0 and retry_after_seconds =
\* max(0, window_seconds - (now - oldest surviving timestamp)), a value in
\* 0..window_seconds.
C30_RetryAfterExact ==
    [][\A w \in Workers :
          DenyStep(w) =>
              /\ result'[w].remaining = 0
              /\ result'[w].retry * TicksPerSec = TimeToExpiry(w)
              /\ result'[w].retry \in 0..window_seconds]_vars

\* C30: a denial returns remaining = 0 and retry_after_seconds =
\* max(0, window_seconds - (now - oldest surviving timestamp)) truncated to
\* whole seconds, a value in 0..window_seconds.
C30_RetryAfterTruncated ==
    [][\A w \in Workers :
          DenyStep(w) =>
              /\ result'[w].remaining = 0
              /\ result'[w].retry = TimeToExpiry(w) \div TicksPerSec
              /\ result'[w].retry \in 0..window_seconds]_vars

\* a call was denied with retry_after_seconds 0 while the oldest timestamp of
\* its window has a fraction of a second left
C30_Witness ==
    \E w \in Workers :
        /\ pc[w] = "idle" /\ op[w] = "check"
        /\ result[w].kind = "denied"
        /\ result[w].remaining = 0
        /\ result[w].retry = 0
        /\ Window(tok[w]) # <<>>
        /\ TimeToExpiry(w) > 0

\* -------------------------------------------------------------- C31 (SeqSpec)
\* the step in which the call of worker w returns allowed
AllowStep(w) ==
    /\ pc[w] = "appended" /\ pc'[w] = "idle"
    /\ result'[w].kind = "allowed"

\* an allowed call appended exactly one timestamp, the clock of its append,
\* which is in the window, and returned limit - count - 1
AllowAppendsAndCounts(w) ==
    /\ callLog[w].appends = 1
    /\ stamp[w] \in 0..now
    /\ \E i \in 1..Len(Window(tok[w])) : Window(tok[w])[i] = stamp[w]
    /\ Len(Window(tok[w])) = current_count[w] + 1
    /\ result'[w].remaining = requests_per_minute - current_count[w] - 1

\* C31: an allowed check_rate_limit has appended exactly one timestamp, the
\* clock at the append, returns remaining = limit - (count surviving the
\* purge) - 1, and returns retry_after_seconds computed against the oldest
\* timestamp of the window after the insertion, which is window_seconds when
\* the window was empty before the call.
C31_AllowNumerics ==
    [][\A w \in Workers :
          AllowStep(w) =>
              /\ AllowAppendsAndCounts(w)
              /\ result'[w].retry = remaining_time(Head(Window(tok[w])))
              /\ current_count[w] = 0 => result'[w].retry = window_seconds]_vars

\* ----------------------------------------------------------------- C32 (Spec)
\* the step in which the call of worker w stores its purged list
PurgeStep(w) == pc[w] = "store" /\ pc'[w] = "count"

\* the step in which the call of worker w returns allowed or denied
ReturnStep(w) ==
    /\ pc[w] \in {"compare", "appended"} /\ pc'[w] = "idle"
    /\ result'[w].kind \in {"allowed", "denied"}

\* the window of t after the step
WindowAfter(t) == IF t \in DOMAIN token_requests' THEN token_requests'[t] ELSE <<>>

\* C32: the purge is strict.  With now the clock the call read for its purge,
\* the purge removes every timestamp ts <= now - window_seconds of the token
\* and keeps, in order, every timestamp ts > now - window_seconds; and when the
\* call returns, every timestamp in the window of its token satisfies
\* ts > now - window_seconds.
C32_StrictPurge ==
    [][\A w \in Workers :
          /\ PurgeStep(w) =>
                /\ \A i \in 1..Len(WindowAfter(tok[w])) :
                      WindowAfter(tok[w])[i] > current_time[w] - WindowTicks
                /\ \A i \in 1..Len(Window(tok[w])) :
                      Window(tok[w])[i] > current_time[w] - WindowTicks =>
                          \E j \in 1..Len(WindowAfter(tok[w])) :
                              WindowAfter(tok[w])[j] = Window(tok[w])[i]
                /\ Len(WindowAfter(tok[w])) =
                      Cardinality({i \in 1..Len(Window(tok[w])) :
                                      Window(tok[w])[i] > current_time[w] - WindowTicks})
          /\ ReturnStep(w) =>
                \A i \in 1..Len(WindowAfter(tok[w])) :
                    WindowAfter(tok[w])[i] > current_time[w] - WindowTicks]_vars

\* -------------------------------------------------------------- C33 (SeqSpec)
\* C33: a denied check records nothing.  When check_rate_limit returns
\* allowed=false it has appended no timestamp and the window of its token
\* holds exactly the timestamps its purge kept; of two denials in a row the
\* later one does not announce a longer delay than the earlier one.
C33_DeniedRecordsNothing ==
    /\ [][\A w \in Workers :
             DenyStep(w) =>
                 /\ WindowAfter(tok[w]) = filtered[w]
                 /\ WindowAfter(tok[w]) = Window(tok[w])
                 /\ callLog'[w].appends = 0
                 /\ stamp[w] = -1]_vars
    /\ [](\A t \in Tokens : \A i \in 1..Len(history[t]) - 1 :
             history[t][i].kind = "denied" /\ history[t][i + 1].kind = "denied" =>
                 /\ history[t][i + 1].retry <= history[t][i].retry
                 /\ history[t][i + 1].count <= history[t][i].count)

\* a token was denied twice in a row and its window still holds only the
\* timestamp of the call that was allowed before
C33_Witness ==
    \E w \in Workers :
        /\ pc[w] = "idle" /\ result[w].kind = "denied"
        /\ callLog[w].appends = 0
        /\ Len(history[tok[w]]) = 3
        /\ history[tok[w]][1].kind = "allowed"
        /\ history[tok[w]][2].kind = "denied"
        /\ history[tok[w]][3].kind = "denied"
        /\ Window(tok[w]) = <<history[tok[w]][1].ts>>

\* -------------------------------------------------------------- C34 (SeqSpec)
\* C34: the announced delay is long enough.  When a token is denied at time T
\* with retry_after_seconds = r under a limit >= 1, the next check_rate_limit
\* for it, made at T + r or later with no call for the token in between,
\* returns allowed=true.
C34_RetryDelaySuffices ==
    \A t \in Tokens : \A i \in 1..Len(history[t]) - 1 :
        /\ requests_per_minute >= 1
        /\ history[t][i].kind = "denied"
        /\ history[t][i + 1].at >= history[t][i].denied_at + history[t][i].retry * TicksPerSec
        => history[t][i + 1].kind = "allowed"

\* -------------------------------------------------------------- C35 (SeqSpec)
\* C35: with the calls executed one after another under a limit L >= 1, the
\* window of every token holds at most L timestamps in non-decreasing order,
\* and every allowed call returned a remaining value in 0..L-1.
C35_WindowBoundedSorted ==
    requests_per_minute >= 1 =>
        /\ \A t \in DOMAIN token_requests :
              /\ Len(token_requests[t]) <= requests_per_minute
              /\ \A i \in 1..Len(token_requests[t]) - 1 :
                    token_requests[t][i] <= token_requests[t][i + 1]
        /\ \A w \in Workers :
              result[w].kind = "allowed" =>
                  result[w].remaining \in 0..requests_per_minute - 1
        /\ \A t \in Tokens : \A i \in 1..Len(history[t]) :
              history[t][i].kind = "allowed" =>
                  history[t][i].remaining \in 0..requests_per_minute - 1

\* a window is full with two timestamps of different instants, and the call
\* that filled it returned remaining = 0
C35_Witness ==
    \E w \in Workers :
        /\ pc[w] = "idle" /\ result[w].kind = "allowed" /\ result[w].remaining = 0
        /\ requests_per_minute = 2
        /\ Len(Window(tok[w])) = 2
        /\ Window(tok[w])[1] < Window(tok[w])[2]

\* the limiter as the tests drive it: constructions, re-constructions and
\* resets of the singleton between calls of check_rate_limit and
\* reset_token_limit that run one after another
CtorNext ==
    \/ \E rpm \in LimitArgs, ws \in WindowArgs, dbm \in BOOLEAN :
          AllIdle /\ RateLimiter_init(rpm, ws, dbm)
    \/ AllIdle /\ reset_instance
    \/ \E t \in Tokens \cup {EmptyToken} :
          initialized /\ AllIdle /\ started < MaxParallel /\ StartCheck(SeqWorker, t)
    \/ CheckStep(SeqWorker)
    \/ \E t \in Tokens : initialized /\ AllIdle /\ reset_token_limit(t)

CtorInit ==
    Init /\ ~db_manager /\ admin = Configured /\ requests_per_minute = MaxLimit

CtorSpec == CtorInit /\ [][CtorNext]_vars

\* ----------------------------------------------------------------- C36 (Spec)
\* C36: no admitted request is lost from the window.  Whatever the
\* interleaving of the calls on a token, the timestamp of every call that
\* returned allowed=true is in the window of the token as long as it has not
\* expired.
C36_NoAdmittedLost ==
    \A t \in Tokens : \A i \in 1..Len(history[t]) :
        history[t][i].kind = "allowed" /\ history[t][i].ts > now - WindowTicks =>
            \E j \in 1..Len(Window(t)) : Window(t)[j] = history[t][i].ts

\* ------------------------------------------------------------ C37 (CtorSpec)
\* a step that is a call RateLimiter(...)
CtorStep == lastCtor'.n # lastCtor.n

\* C37: the first construction sets limit and window and starts with no
\* windows.  A later construction with a limit other than the default 100 sets
\* the limit and clears all windows, also when the limit is the current one;
\* with a window other than the default 60 it sets the window, and that alone
\* clears nothing; with the default limit it leaves limit and windows as they
\* are, with the default window it leaves the window as it is, so default
\* arguments change nothing and do not bring the limit back to 100.
C37_Reconstruction ==
    [][CtorStep =>
        LET rpm == lastCtor'.requests_per_minute
            ws == lastCtor'.window_seconds
        IN  IF ~initialized
            THEN /\ requests_per_minute' = rpm
                 /\ window_seconds' = ws
                 /\ token_requests' = NoWindows
                 /\ initialized'
            ELSE /\ rpm # DEFAULT_REQUESTS_PER_MINUTE =>
                        requests_per_minute' = rpm /\ token_requests' = NoWindows
                 /\ rpm = DEFAULT_REQUESTS_PER_MINUTE =>
                        UNCHANGED <<requests_per_minute, token_requests>>
                 /\ ws # DEFAULT_WINDOW_SECONDS => window_seconds' = ws
                 /\ ws = DEFAULT_WINDOW_SECONDS => UNCHANGED window_seconds]_vars

\* a re-construction with the limit already in force has just cleared the
\* windows of two tokens
C37_Witness ==
    /\ lastCtor.n > 0 /\ ~lastCtor.first
    /\ lastCtor.requests_per_minute = lastCtor.limit_before
    /\ lastCtor.keys_before = Tokens
    /\ token_requests = NoWindows
    /\ requests_per_minute = lastCtor.limit_before

\* ------------------------------------------------------------- C40 (MapSpec)
\* one limiter over time: calls of check_rate_limit and reset_token_limit that
\* run one after another while the clock advances, between them
\* RateLimiter() as check_rate_limit_dependency calls it and
\* RateLimiter(requests_per_minute=...) with the limit in force
MapNext ==
    \/ \E rpm \in {1, DEFAULT_REQUESTS_PER_MINUTE} :
          AllIdle /\ RateLimiter_init(rpm, DEFAULT_WINDOW_SECONDS, FALSE)
    \/ \E t \in Tokens \cup {EmptyToken} :
          AllIdle /\ started < MaxParallel /\ StartCheck(SeqWorker, t)
    \/ CheckStep(SeqWorker)
    \/ \E t \in Tokens : AllIdle /\ reset_token_limit(t)
    \/ AllIdle /\ Tick

MapInit == Init /\ ~db_manager /\ admin = Configured /\ requests_per_minute = 1

MapSpec == MapInit /\ [][MapNext]_vars

\* a step that makes the limiter's map anew: the first construction of an
\* instance, or a re-construction that sets the limit
ClearStep ==
    CtorStep /\ (~initialized \/ lastCtor'.requests_per_minute # DEFAULT_REQUESTS_PER_MINUTE)

\* a step in which no call of check_rate_limit starts or advances and nothing
\* is constructed or discarded: a call of reset_token_limit
ResetStep ==
    /\ AllIdle /\ pc' = pc /\ started' = started
    /\ ~CtorStep /\ initialized' = initialized /\ now' = now

\* C40: the token map only grows.  Apart from the clear done when the limit is
\* reconfigured, no step removes a key of token_requests; once a call of
\* check_rate_limit has looked at a token the token has an entry, which a
\* purge may empty but does not remove; reset_token_limit leaves the token
\* with an empty entry and removes no key.
C40_MapOnlyGrows ==
    [][/\ ~ClearStep => DOMAIN token_requests \subseteq DOMAIN token_requests'
       /\ \A w \in Workers :
             callLog'[w].touched /\ pc'[w] # "idle" =>
                tok'[w] \in DOMAIN token_requests'
       /\ ResetStep =>
             \E t \in Tokens :
                /\ DOMAIN token_requests' = DOMAIN token_requests \cup {t}
                /\ token_requests'[t] = <<>>
                /\ \A k \in DOMAIN token_requests \ {t} :
                      token_requests'[k] = token_requests[k]]_vars

\* a token whose window held a timestamp has been reset and is still a key,
\* next to the key of the other token
C40_Witness ==
    /\ "t1" \in wasReset
    /\ DOMAIN token_requests = Tokens
    /\ token_requests["t1"] = <<>>
    /\ token_requests["t2"] # <<>>
    /\ lastCtor.n = 0

\* ----------------------------------------------------------- C38 (StoreSpec)
\* one thread that makes managers, resets the singleton and gets and closes
\* connections, as the tests do through temp_db
StoreThread == MainThread

StoreNext ==
    \/ \E path \in DbPaths \cup {NoPath} : DatabaseManager_init(path)
    \/ reset_db_instance
    \/ db_instance /\ get_connection(StoreThread)
    \/ db_instance /\ close_connection(StoreThread)

StoreSpec == LedgerInit /\ [][StoreNext]_vars

\* C38: a manager's connection always targets its own store.  Whatever
\* managers were made, also after the singleton was reset and made again with
\* another db_path, and whatever was closed, the connection get_connection
\* returned last is a connection to the db_path of the manager it was called
\* on, and the table has been made in that file.
C38_OwnStore ==
    lastGet.conn # NoConn =>
        /\ connections[lastGet.conn].path = lastGet.db_path
        /\ lastGet.db_path \in schema

\* ---------------------------------------------------------- C39 (RevokeSpec)
\* the token endpoints of the router on a ledger of two tokens, one request at
\* a time, on a store that may be unreachable during a call
RevokeNext ==
    \/ \E u \in Usernames, p \in Passwords, e \in ExpiryFields, t \in Tokens,
          ok \in BOOLEAN : create_token(u, p, e, t, ok)
    \/ \E u \in Usernames, p \in Passwords, t \in Tokens, ok \in BOOLEAN :
          revoke_token(u, p, t, ok)
    \/ \E u \in Usernames, p \in Passwords, ok \in BOOLEAN : get_tokens(u, p, ok)

RevokeInit == Init /\ requests_per_minute = MaxLimit /\ window_seconds = MaxWindow

RevokeSpec == RevokeInit /\ [][RevokeNext]_vars

\* a request to /revoke-token has been answered
RevokeStep == response'.handler = "revoke_token"

\* it got as far as deactivate_api_token, which returned
RevokeReturned == RevokeStep /\ response'.ledger /\ dbResult'.raised = ""

\* C39: /revoke-token answers 400 exactly when deactivate_api_token returned
\* false, and that is when no row of the token exists, the token never having
\* been created; a token revoked before is revoked with success again.  The
\* call leaves the rows of all other tokens as they are and adds or removes
\* none, so the active rows after it are the active rows before it without
\* the token, and /get-tokens lists exactly the active rows.
C39_RevokeEndpoint ==
    [][/\ RevokeStep =>
             (response'.status = 400 <=> RevokeReturned /\ ~dbResult'.ret)
       /\ RevokeReturned =>
             LET t == dbResult'.token
             IN  /\ dbResult'.ret <=> TokenRows(rows, t) # {}
                 /\ dbResult'.ret => response'.status = OK
                 /\ Len(rows') = Len(rows)
                 /\ \A i \in 1..Len(rows) :
                       /\ rows[i].token # t => rows'[i] = rows[i]
                       /\ rows[i].token = t =>
                             rows'[i] = [rows[i] EXCEPT !.is_active = FALSE]
                 /\ active_rows(rows') =
                       SelectSeq(active_rows(rows), LAMBDA r : r.token # t)
       /\ response'.handler = "get_tokens" /\ response'.status = OK =>
             /\ rows' = rows
             /\ dbResult'.listing = SelectSeq(rows, LAMBDA r : r.is_active)]_vars

\* a token revoked before has been revoked with success again while the other
\* token is still active
C39_Witness ==
    /\ response.handler = "revoke_token" /\ response.status = OK
    /\ dbResult.op = "deactivate" /\ dbResult.ret
    /\ \E i \in 1..Len(rowsBefore) :
          rowsBefore[i].token = dbResult.token /\ ~rowsBefore[i].is_active
    /\ \E i \in 1..Len(rows) : rows[i].token # dbResult.token /\ rows[i].is_active

====
